---------------------------- MODULE Spec2Model ----------------------------
(* A model of the api_platzi_store views:                                  *)
(*   accounts/views.py  - registration, login, logout, profile (API and    *)
(*                        web form), over the user store, the token store  *)
(*                        and the per-client sessions;                     *)
(*   products/views.py  - the catalog gateway: list, create, update and    *)
(*                        delete against the remote REST API.              *)
(* Every view is one action: it reads the request, makes its remote calls  *)
(* or store updates, and leaves the request and its response in the state. *)
EXTENDS Integers, Sequences, FiniteSets, TLC

VARIABLES
    users,      \* the User table: a set of [id, username, password]
    tokens,     \* the Token table: a set of [key, user]
    session,    \* per client: the id of the logged-in user, 0 if anonymous
    nextId,     \* the next User primary key
    nextKey,    \* the next token key that generate_key will produce
    regToken,   \* history: per user id, the key register_api returned (0: none)
    revoked,    \* history: the keys whose token logout_api deleted
    request,    \* the request handled last
    response,   \* the response to it
    calls       \* the remote HTTP calls made while handling it, in order

vars == <<users, tokens, session, nextId, nextKey, regToken, revoked,
          request, response, calls>>

accountVars == <<users, tokens, session, nextId, nextKey, regToken, revoked>>

-----------------------------------------------------------------------------
(* Bounds of the model *)

MaxUsers == 2
MaxKeys == 2
NumClients == 1

(* Program constants *)

MinPasswordLength == 8

Clients == 1..NumClients
UserIds == 1..MaxUsers
Keys == 1..MaxKeys
Methods == {"GET", "POST"}
Usernames == {"ana", "bob"}
Passwords == {"secret7", "password1"}

-----------------------------------------------------------------------------
(* Framework primitives the account views call *)

\* django.contrib.auth.hashers: the stored password is a hash of the raw one
make_password(raw) == <<"pbkdf2_sha256", raw>>

check_password(raw, encoded) == make_password(raw) = encoded

UsernameExists(username) == \E u \in users : u.username = username

\* authenticate(): the id of the user with that username and password, else 0
authenticate(username, password) ==
    IF \E u \in users : u.username = username /\ check_password(password, u.password)
    THEN (CHOOSE u \in users :
              u.username = username /\ check_password(password, u.password)).id
    ELSE 0

HasToken(user) == \E t \in tokens : t.user = user

TokenKeys == {t.key : t \in tokens}

\* Token.objects.get_or_create(user=user) that never finds the existing row
get_or_create_always_creates(user) ==
    [key |-> nextKey, created |-> TRUE,
     tokens |-> tokens \cup {[key |-> nextKey, user |-> user]}]

\* get_or_create that replaces the user's token by a new one (token rotation)
get_or_create_rotates(user) ==
    [key |-> nextKey, created |-> TRUE,
     tokens |-> {t \in tokens : t.user # user} \cup {[key |-> nextKey, user |-> user]}]

\* Token.objects.get_or_create(user=user): the user's token if there is one,
\* otherwise a new token with a freshly generated key
get_or_create(user) ==
    IF HasToken(user)
    THEN [key |-> (CHOOSE t \in tokens : t.user = user).key, created |-> FALSE,
          tokens |-> tokens]
    ELSE [key |-> nextKey, created |-> TRUE,
          tokens |-> tokens \cup {[key |-> nextKey, user |-> user]}]

\* serializer.is_valid() / form.is_valid() that accepts whatever was submitted
is_valid_always(errors) == TRUE

\* serializer.is_valid() / form.is_valid(): no field is in error
is_valid(errors) == errors = {}

\* The permission check of the authenticated API views: the owner of the
\* token key in the Authorization header, 0 when there is no such token
TokenAuth(key) ==
    IF key \in TokenKeys THEN (CHOOSE t \in tokens : t.key = key).user ELSE 0

\* UserRegistrationSerializer / UserRegistrationForm validation: the fields in error
RegistrationErrors(username, password, password2) ==
    (IF UsernameExists(username) THEN {"username"} ELSE {})
    \cup (IF Len(password) < MinPasswordLength THEN {"password"} ELSE {})
    \cup (IF password # password2 THEN {"password2"} ELSE {})

NewUser(username, password) ==
    [id |-> nextId, username |-> username, password |-> make_password(password)]

Req(op, c, m, username, password, password2, key) ==
    [op |-> op, client |-> c, method |-> m, username |-> username,
     password |-> password, password2 |-> password2, key |-> key]

Resp(status, kind, user, token, created, errors) ==
    [status |-> status, kind |-> kind, user |-> user, token |-> token,
     created |-> created, errors |-> errors]

MethodNotAllowed == Resp(405, "json", 0, 0, FALSE, {})

-----------------------------------------------------------------------------
(* accounts/views.py: the API views *)

register_api(c, m, username, password, password2) ==
    /\ request' = Req("register_api", c, m, username, password, password2, 0)
    /\ UNCHANGED <<session, revoked, calls>>
    /\ IF m # "POST"
       THEN /\ response' = MethodNotAllowed
            /\ UNCHANGED <<users, tokens, nextId, nextKey, regToken>>
       ELSE IF is_valid(RegistrationErrors(username, password, password2))
       THEN /\ nextId <= MaxUsers /\ nextKey <= MaxKeys
            /\ users' = users \cup {NewUser(username, password)}
            /\ nextId' = nextId + 1
            /\ LET got == get_or_create(nextId) IN
                 /\ tokens' = got.tokens
                 /\ nextKey' = IF got.created THEN nextKey + 1 ELSE nextKey
                 /\ regToken' = [regToken EXCEPT ![nextId] = got.key]
                 /\ response' = Resp(201, "json", nextId, got.key, got.created, {})
       ELSE /\ response' = Resp(400, "json", 0, 0, FALSE,
                                RegistrationErrors(username, password, password2))
            /\ UNCHANGED <<users, tokens, nextId, nextKey, regToken>>

login_api(c, m, username, password) ==
    /\ request' = Req("login_api", c, m, username, password, "", 0)
    /\ UNCHANGED <<users, nextId, regToken, revoked, calls>>
    /\ IF m # "POST"
       THEN /\ response' = MethodNotAllowed
            /\ UNCHANGED <<tokens, session, nextKey>>
       ELSE IF authenticate(username, password) # 0
       THEN LET user == authenticate(username, password)
                got == get_or_create(user) IN
              /\ got.created => nextKey <= MaxKeys
              /\ session' = [session EXCEPT ![c] = user]
              /\ tokens' = got.tokens
              /\ nextKey' = IF got.created THEN nextKey + 1 ELSE nextKey
              /\ response' = Resp(200, "json", user, got.key, got.created, {})
       ELSE /\ response' = Resp(400, "json", 0, 0, FALSE, {"non_field_errors"})
            /\ UNCHANGED <<tokens, session, nextKey>>


\* request.user.auth_token.delete() that removes nothing
delete_auth_token_keeps(user) == tokens

\* request.user.auth_token.delete(): the token table without the user's token
delete_auth_token(user) == {t \in tokens : t.user # user}

logout_api(c, m, key) ==
    /\ request' = Req("logout_api", c, m, "", "", "", key)
    /\ UNCHANGED <<users, nextId, nextKey, regToken, calls>>
    /\ IF m # "POST"
       THEN /\ response' = MethodNotAllowed
            /\ UNCHANGED <<tokens, session, revoked>>
       ELSE IF TokenAuth(key) = 0
       THEN \* IsAuthenticated refuses the request before the view body runs
            /\ response' = Resp(401, "json", 0, 0, FALSE, {"detail"})
            /\ UNCHANGED <<tokens, session, revoked>>
       ELSE LET user == TokenAuth(key) IN
            IF HasToken(user)
            THEN /\ tokens' = delete_auth_token(user)
                 /\ revoked' = revoked \cup {t.key : t \in tokens \ delete_auth_token(user)}
                 /\ session' = [session EXCEPT ![c] = 0]
                 /\ response' = Resp(200, "json", user, 0, FALSE, {})
            ELSE \* auth_token raises RelatedObjectDoesNotExist: the except branch
                 /\ response' = Resp(400, "json", user, 0, FALSE, {"error"})
                 /\ UNCHANGED <<tokens, session, revoked>>

user_profile_api(c, m, key) ==
    /\ request' = Req("user_profile_api", c, m, "", "", "", key)
    /\ UNCHANGED <<accountVars, calls>>
    /\ response' = IF m # "GET" THEN MethodNotAllowed
                   ELSE IF TokenAuth(key) = 0
                   THEN Resp(401, "json", 0, 0, FALSE, {"detail"})
                   ELSE Resp(200, "json", TokenAuth(key), 0, FALSE, {})

\* the 'available' field of the response is carried in 'created'
check_username_api(c, m, username) ==
    /\ request' = Req("check_username_api", c, m, username, "", "", 0)
    /\ UNCHANGED <<accountVars, calls>>
    /\ response' = IF m # "GET" THEN MethodNotAllowed
                   ELSE IF username = ""
                   THEN Resp(400, "json", 0, 0, FALSE, {"username"})
                   ELSE Resp(200, "json", 0, 0, ~UsernameExists(username), {})

-----------------------------------------------------------------------------
(* accounts/views.py: the form views *)

RedirectHome(user) == Resp(302, "redirect", user, 0, FALSE, {})

Render(errors) == Resp(200, "render", 0, 0, FALSE, errors)

register_view(c, m, username, password1, password2) ==
    /\ request' = Req("register_view", c, m, username, password1, password2, 0)
    /\ UNCHANGED <<tokens, nextKey, regToken, revoked, calls>>
    /\ IF session[c] # 0
       THEN /\ response' = RedirectHome(session[c])
            /\ UNCHANGED <<users, session, nextId>>
       ELSE IF m = "POST" /\ is_valid(RegistrationErrors(username, password1, password2))
       THEN /\ nextId <= MaxUsers
            /\ users' = users \cup {NewUser(username, password1)}
            /\ nextId' = nextId + 1
            /\ session' = [session EXCEPT ![c] = nextId]
            /\ response' = RedirectHome(nextId)
       ELSE /\ response' = Render(IF m = "POST"
                                  THEN RegistrationErrors(username, password1, password2)
                                  ELSE {})
            /\ UNCHANGED <<users, session, nextId>>

login_view(c, m, username, password) ==
    /\ request' = Req("login_view", c, m, username, password, "", 0)
    /\ UNCHANGED <<users, tokens, nextId, nextKey, regToken, revoked, calls>>
    /\ IF session[c] # 0
       THEN /\ response' = RedirectHome(session[c])
            /\ UNCHANGED session
       ELSE IF m = "POST" /\ authenticate(username, password) # 0
       THEN /\ session' = [session EXCEPT ![c] = authenticate(username, password)]
            /\ response' = RedirectHome(authenticate(username, password))
       ELSE /\ response' = Render(IF m = "POST" THEN {"non_field_errors"} ELSE {})
            /\ UNCHANGED session

logout_view(c, m) ==
    /\ request' = Req("logout_view", c, m, "", "", "", 0)
    /\ UNCHANGED <<users, tokens, nextId, nextKey, regToken, revoked, calls>>
    /\ session' = IF m = "POST" THEN [session EXCEPT ![c] = 0] ELSE session
    /\ response' = RedirectHome(session[c])

-----------------------------------------------------------------------------
(* The account specification: any sequence of requests from any client *)

Init ==
    /\ users = {}
    /\ tokens = {}
    /\ session = [c \in Clients |-> 0]
    /\ nextId = 1
    /\ nextKey = 1
    /\ regToken = [u \in UserIds |-> 0]
    /\ revoked = {}
    /\ request = [op |-> "none"]
    /\ response = [status |-> 0]
    /\ calls = <<>>

Next ==
    \E c \in Clients, m \in Methods :
        \/ \E u \in Usernames, p \in Passwords, p2 \in Passwords :
               register_api(c, m, u, p, p2)
        \/ \E u \in Usernames, p \in Passwords : login_api(c, m, u, p)
        \/ \E k \in Keys : logout_api(c, m, k)
        \/ \E k \in Keys : user_profile_api(c, m, k)
        \/ \E u \in Usernames \cup {""} : check_username_api(c, m, u)
        \/ \E u \in Usernames, p \in Passwords, p2 \in Passwords :
               register_view(c, m, u, p, p2)
        \/ \E u \in Usernames, p \in Passwords : login_view(c, m, u, p)
        \/ logout_view(c, m)

Spec == Init /\ [][Next]_vars

-----------------------------------------------------------------------------
(* Properties of the account views *)

IsRegister(req) == req.op \in {"register_api", "register_view"} /\ req.method = "POST"

WeakOrMismatched(req) ==
    Len(req.password) < MinPasswordLength \/ req.password # req.password2

\* C1: in every reachable state each User has at most one AuthToken.
C1_AtMostOneTokenPerUser ==
    \A t1 \in tokens, t2 \in tokens : t1.user = t2.user => t1 = t2

\* C1 witness: a login_api call found the user's token and reused it.
C1_Witness ==
    /\ request.op = "login_api" /\ response.status = 200
    /\ ~response.created /\ HasToken(response.user)

\* C2 as stated: every successful login_api of a user created by register_api
\* returns the token register_api returned and creates no token.
C2_Original ==
    (request.op = "login_api" /\ response.status = 200
        /\ regToken[response.user] # 0)
    => (response.token = regToken[response.user] /\ ~response.created)

\* C2 amended: as long as logout_api has not deleted the token register_api
\* returned, every successful login_api of that user returns that same token
\* and creates no token.
C2_LoginReusesRegisterToken ==
    (request.op = "login_api" /\ response.status = 200
        /\ regToken[response.user] # 0
        /\ regToken[response.user] \notin revoked)
    => (response.token = regToken[response.user] /\ ~response.created)

\* C2 witness: a login_api of an API-registered user whose token is still there.
C2_Witness ==
    /\ request.op = "login_api" /\ response.status = 200
    /\ regToken[response.user] # 0 /\ regToken[response.user] \notin revoked

\* C3 as stated: every register call with a weak or mismatched password
\* returns a field error (400 on the API) and changes neither store.
C3_Original ==
    [][(IsRegister(request') /\ WeakOrMismatched(request'))
       => /\ response'.errors \cap {"password", "password2"} # {}
          /\ (request'.op = "register_api" => response'.status = 400)
          /\ users' = users /\ tokens' = tokens]_vars

\* C3 amended: a register call with a weak or mismatched password changes
\* neither store; register_api answers 400 with a field error, and
\* register_view renders the form again with a field error unless the session
\* is already authenticated, when it redirects home without validating.
C3_InvalidPasswordCreatesNothing ==
    [][(IsRegister(request') /\ WeakOrMismatched(request'))
       => /\ users' = users /\ tokens' = tokens
          /\ (request'.op = "register_api"
                => /\ response'.status = 400
                   /\ response'.errors \cap {"password", "password2"} # {})
          /\ (request'.op = "register_view" /\ session[request'.client] = 0
                => /\ response'.kind = "render"
                   /\ response'.errors \cap {"password", "password2"} # {})
          /\ (request'.op = "register_view" /\ session[request'.client] # 0
                => response'.kind = "redirect")]_vars

\* C3 witness: register_api refused a password of fewer than 8 characters.
C3_Witness ==
    /\ request.op = "register_api" /\ request.method = "POST"
    /\ Len(request.password) < MinPasswordLength
    /\ response.status = 400 /\ "password" \in response.errors

UniqueUsernames ==
    \A u1 \in users, u2 \in users : u1.username = u2.username => u1 = u2

\* C4 as stated: a register call for a fresh username with a valid password
\* succeeds, one for a taken username fails with a validation error and
\* changes neither store, and no two users ever share a username.
C4_Original ==
    [][/\ UniqueUsernames'
       /\ (IsRegister(request') /\ UsernameExists(request'.username))
            => /\ "username" \in response'.errors
               /\ users' = users /\ tokens' = tokens
       /\ (IsRegister(request') /\ session[request'.client] = 0
             /\ RegistrationErrors(request'.username, request'.password,
                                   request'.password2) = {})
            => /\ response'.status \in {201, 302}
               /\ \E u \in users' \ users : u.username = request'.username]_vars

\* C4 amended: as C4, except that register_view answers a request from an
\* already authenticated session with a redirect home before validating, so
\* there the second call is refused without a validation error.
C4_DuplicateUsernameRefused ==
    [][/\ UniqueUsernames'
       /\ (IsRegister(request') /\ UsernameExists(request'.username))
            => /\ users' = users /\ tokens' = tokens
               /\ \/ "username" \in response'.errors
                  \/ /\ request'.op = "register_view"
                     /\ session[request'.client] # 0
                     /\ response'.kind = "redirect"
       /\ (IsRegister(request') /\ session[request'.client] = 0
             /\ RegistrationErrors(request'.username, request'.password,
                                   request'.password2) = {})
            => /\ response'.status \in {201, 302}
               /\ \E u \in users' \ users : u.username = request'.username]_vars

\* C4 witness: a second registration of a taken username was refused.
C4_Witness ==
    /\ request.op = "register_api" /\ request.method = "POST"
    /\ response.status = 400 /\ "username" \in response.errors
    /\ \E u \in users : u.username = request.username /\ regToken[u.id] # 0

LogoutApiDone == request.op = "logout_api" /\ response.status = 200

LogoutViewDone ==
    request.op = "logout_view" /\ request.method = "POST" /\ response.user # 0

RevokedStaysInvalid ==
    (request.op = "user_profile_api" /\ request.method = "GET"
        /\ request.key \in revoked)
    => response.status = 401

\* C5 as stated: after a successful logout (API or web) the user's token no
\* longer exists and the session is cleared, and a profile request with the
\* old token is refused.
C5_Original ==
    /\ (LogoutApiDone \/ LogoutViewDone)
         => (~HasToken(response.user) /\ session[request.client] = 0)
    /\ RevokedStaysInvalid

\* C5 amended: after a successful logout_api the user's token no longer exists
\* and the requesting session is cleared, and a profile request with a token
\* logout_api deleted is refused; logout_view clears the session only.
C5_LogoutApiRevokesToken ==
    /\ LogoutApiDone
         => /\ ~HasToken(response.user)
            /\ request.key \notin TokenKeys
            /\ request.key \in revoked
            /\ session[request.client] = 0
    /\ LogoutViewDone => session[request.client] = 0
    /\ RevokedStaysInvalid

\* C5 witness: a profile request with a token that logout_api deleted.
C5_Witness ==
    /\ request.op = "user_profile_api" /\ request.key \in revoked
    /\ response.status = 401

-----------------------------------------------------------------------------
(* products/views.py: strings, as sequences of characters *)

MaxProducts == 2
MaxQueryLen == 2

All == <<"A", "l", "l">>

\* the code points of the characters used
Ord == [ch \in {" ", "1", "2", "A", "B", "a", "b", "l"} |->
          CASE ch = " " -> 32 [] ch = "1" -> 49 [] ch = "2" -> 50
            [] ch = "A" -> 65 [] ch = "B" -> 66
            [] ch = "a" -> 97 [] ch = "b" -> 98 [] ch = "l" -> 108]

LowerChar(ch) == CASE ch = "A" -> "a" [] ch = "B" -> "b" [] OTHER -> ch

\* str.lower()
lower(s) == [i \in 1..Len(s) |-> LowerChar(s[i])]

RECURSIVE lstrip(_)
lstrip(s) == IF s # <<>> /\ Head(s) = " " THEN lstrip(Tail(s)) ELSE s

RECURSIVE rstrip(_)
rstrip(s) ==
    IF s # <<>> /\ s[Len(s)] = " " THEN rstrip(SubSeq(s, 1, Len(s) - 1)) ELSE s

\* str.strip()
strip(s) == rstrip(lstrip(s))

Digit(d) == CASE d = 0 -> "0" [] d = 1 -> "1" [] d = 2 -> "2" [] d = 3 -> "3"
              [] d = 4 -> "4" [] d = 5 -> "5" [] d = 6 -> "6" [] d = 7 -> "7"
              [] d = 8 -> "8" [] d = 9 -> "9"

\* str(n) of a non-negative integer
RECURSIVE str(_)
str(n) == IF n < 10 THEN <<Digit(n)>> ELSE str(n \div 10) \o <<Digit(n % 10)>>

\* Python's 'needle in hay' on strings
In(needle, hay) ==
    \E i \in 0..(Len(hay) - Len(needle)) : SubSeq(hay, i + 1, i + Len(needle)) = needle

\* Python's string order: by code point, a proper prefix first
RECURSIVE StrLeq(_, _)
StrLeq(a, b) ==
    IF a = <<>> THEN TRUE
    ELSE IF b = <<>> THEN FALSE
    ELSE IF Head(a) # Head(b) THEN Ord[Head(a)] < Ord[Head(b)]
    ELSE StrLeq(Tail(a), Tail(b))

\* sorted(S) of a set of strings
RECURSIVE sorted(_)
sorted(S) ==
    IF S = {} THEN <<>>
    ELSE LET least == CHOOSE x \in S : \A y \in S : StrLeq(x, y)
         IN  <<least>> \o sorted(S \ {least})

\* request.GET.get(key, default)
GETget(GET, key, default) == IF key \in DOMAIN GET THEN GET[key] ELSE default

-----------------------------------------------------------------------------
(* products/views.py: the remote API as the views see it *)

Outcomes == {"ok", "timeout", "http_error"}

\* 'except requests.RequestException' that catches timeouts only
is_RequestException_timeout_only(outcome) == outcome = "timeout"

\* what 'except requests.RequestException' catches: a timeout, and the
\* HTTPError raise_for_status() raises for a non-2xx status
is_RequestException(outcome) == outcome \in {"timeout", "http_error"}

Call(verb, path, outcome, payload) ==
    [verb |-> verb, path |-> path, outcome |-> outcome, payload |-> payload]

NoPayload == <<>>

Pending == [status |-> 0]

Raised == [kind |-> "raise"]

RedirectProductList == [kind |-> "redirect", to |-> "products:product_list"]

-----------------------------------------------------------------------------
(* products/views.py: product_list *)

Product(id, title, name) == [id |-> id, title |-> title, category |-> [name |-> name]]

filter_category(productos, selected) ==
    IF selected # All
    THEN SelectSeq(productos, LAMBDA p : p.category.name = selected)
    ELSE productos

\* the first product_list of the file, which has no search filter
filter_query_absent(productos, query) == productos

filter_query(productos, query) ==
    IF query # <<>>
    THEN SelectSeq(productos,
                   LAMBDA p : \/ In(query, lower(str(p.id)))
                              \/ In(query, lower(p.title))
                              \/ In(query, lower(p.category.name)))
    ELSE productos

product_list_context(productos, GET) ==
    LET categorias == sorted({productos[i].category.name : i \in 1..Len(productos)})
        selected   == GETget(GET, "category", All)
        query      == lower(strip(GETget(GET, "q", <<>>)))
    IN  [kind |-> "render", template |-> "products/product_list.html",
         productos |-> filter_query(filter_category(productos, selected), query),
         categorias |-> <<All>> \o categorias,
         selected |-> selected]

product_list ==
    /\ request.op = "product_list" /\ response = Pending
    /\ calls' = <<Call("GET", <<"products">>, request.outcome, NoPayload)>>
    /\ response' = IF request.outcome = "ok"
                   THEN product_list_context(request.body, request.GET)
                   ELSE IF is_RequestException(request.outcome)
                   THEN product_list_context(<<>>, request.GET)
                   ELSE Raised
    /\ UNCHANGED <<accountVars, request>>

-----------------------------------------------------------------------------
(* products/forms.py: ProductForm *)

MaxTitleLength == 255
MaxDigits == 10
DecimalPlaces == 2

Digits == {"0", "1", "2", "3", "4", "5", "6", "7", "8", "9"}

DigitVal(ch) == CHOOSE d \in 0..9 : Digit(d) = ch

IsDigits(s) == \A i \in 1..Len(s) : s[i] \in Digits

\* int(s) of a string of digits
RECURSIVE int(_)
int(s) == IF s = <<>> THEN 0 ELSE 10 * int(SubSeq(s, 1, Len(s) - 1)) + DigitVal(s[Len(s)])

DotAt(s) == IF \E i \in 1..Len(s) : s[i] = "."
            THEN CHOOSE i \in 1..Len(s) : s[i] = "." /\ \A j \in 1..(i - 1) : s[j] # "."
            ELSE Len(s) + 1

IntPart(s) == SubSeq(s, 1, DotAt(s) - 1)

FracPart(s) == SubSeq(s, DotAt(s) + 1, Len(s))

\* DecimalField(max_digits=10, decimal_places=2): a plain decimal number with
\* at most 2 decimal places and at most 10 digits
DecimalOk(s) ==
    /\ IntPart(s) # <<>> /\ IsDigits(IntPart(s)) /\ IsDigits(FracPart(s))
    /\ Len(FracPart(s)) <= DecimalPlaces
    /\ Len(IntPart(s)) + Len(FracPart(s)) <= MaxDigits

\* float(price), in hundredths
float(s) ==
    100 * int(IntPart(s))
    + (IF Len(FracPart(s)) = 1 THEN 10 * int(FracPart(s)) ELSE int(FracPart(s)))

\* URLField: a missing scheme is taken as http; the scheme and host are validated
URLSchemes == {"http", "https", "ftp", "ftps"}

CleanURL(image) ==
    [scheme |-> IF image.scheme = "" THEN "http" ELSE image.scheme, host |-> image.host]

URLOk(image) == CleanURL(image).scheme \in URLSchemes /\ image.host = "img.io"

\* ProductForm.__init__ that installs the choices even when there are none,
\* and lets an unlisted category through
Choices_unchecked(categories) == {<<"1">>, <<"7">>}

\* ProductForm.__init__: the category choices are the fetched (id, name)
\* pairs; with no categories the field keeps its empty choice list
Choices(categories) == {str(categories[i][1]) : i \in 1..Len(categories)}

\* ProductForm.is_valid(): the fields in error
ProductFormErrors(data, categories) ==
    (IF data.title = <<>> \/ Len(data.title) > MaxTitleLength THEN {"title"} ELSE {})
    \cup (IF ~DecimalOk(data.price) THEN {"price"} ELSE {})
    \cup (IF data.description = <<>> THEN {"description"} ELSE {})
    \cup (IF data.category \notin Choices(categories) THEN {"category"} ELSE {})
    \cup (IF data.image.host = "" \/ ~URLOk(data.image) THEN {"image"} ELSE {})

\* the payload of the remote create and update, from form.cleaned_data
Payload(data) ==
    [title |-> data.title, price |-> float(data.price),
     description |-> data.description, categoryId |-> int(data.category),
     images |-> <<CleanURL(data.image)>>]

\* the categories fetch of product_create and product_update
fetch_categories(outcome, body) ==
    IF outcome = "ok" THEN [i \in 1..Len(body) |-> <<body[i].id, body[i].name>>]
    ELSE <<>>

RenderForm(template, errors, initial) ==
    [kind |-> "render", template |-> template, errors |-> errors, initial |-> initial]

NoInitial == <<>>

-----------------------------------------------------------------------------
(* products/views.py: product_create, product_update, product_delete *)

\* the try/except around the remote create: redirect on success, a
\* non-field form error and the form again on failure
create_result(outcome) ==
    IF outcome = "ok" THEN RedirectProductList
    ELSE RenderForm("products/product_create.html", {"__all__"}, NoInitial)

product_create ==
    /\ request.op = "product_create" /\ response = Pending
    /\ UNCHANGED <<accountVars, request>>
    /\ LET categories == fetch_categories(request.catOutcome, request.catBody)
           catCall    == Call("GET", <<"categories">>, request.catOutcome, NoPayload)
           errors     == ProductFormErrors(request.POST, categories)
       IN  IF request.method = "POST" /\ is_valid(errors)
           THEN /\ calls' = <<catCall, Call("POST", <<"products">>, request.postOutcome,
                                            Payload(request.POST))>>
                /\ response' = create_result(request.postOutcome)
           ELSE /\ calls' = <<catCall>>
                /\ response' = RenderForm("products/product_create.html",
                                          IF request.method = "POST" THEN errors ELSE {},
                                          NoInitial)

\* the try/except around the remote update that swallows the failure
update_result_swallows(outcome) == RedirectProductList

\* the try/except around the remote update
update_result(outcome) ==
    IF outcome = "ok" THEN RedirectProductList
    ELSE RenderForm("products/product_update.html", {"__all__"}, NoInitial)

\* the initial values of the edit form, from the fetched record
Initial(data) ==
    [title |-> data.title, price |-> data.price, description |-> data.description,
     category |-> data.category.id, image |-> data.images[1]]

product_update ==
    /\ request.op = "product_update" /\ response = Pending
    /\ UNCHANGED <<accountVars, request>>
    /\ LET getCall    == Call("GET", <<"products", request.product_id>>,
                              request.getOutcome, NoPayload)
           categories == fetch_categories(request.catOutcome, request.catBody)
           catCall    == Call("GET", <<"categories">>, request.catOutcome, NoPayload)
           errors     == ProductFormErrors(request.POST, categories)
       IN  IF request.getOutcome # "ok"
           THEN /\ calls' = <<getCall>>
                /\ response' = RedirectProductList
           ELSE IF request.method = "POST" /\ is_valid(errors)
           THEN /\ calls' = <<getCall, catCall,
                              Call("PUT", <<"products", request.product_id>>,
                                   request.putOutcome, Payload(request.POST))>>
                /\ response' = update_result(request.putOutcome)
           ELSE /\ calls' = <<getCall, catCall>>
                /\ response' =
                     IF request.method = "POST"
                     THEN RenderForm("products/product_update.html", errors, NoInitial)
                     ELSE IF request.getBody.images = <<>>
                     THEN Raised   \* data.get('images', [''])[0]: IndexError
                     ELSE RenderForm("products/product_update.html", {},
                                     Initial(request.getBody))

\* the remote DELETE issued whatever the request method is
delete_calls_any_method(method, product_id, outcome) ==
    <<Call("DELETE", <<"products", product_id>>, outcome, NoPayload)>>

\* the remote calls of product_delete: one DELETE, for a POST only
delete_calls(method, product_id, outcome) ==
    IF method = "POST"
    THEN <<Call("DELETE", <<"products", product_id>>, outcome, NoPayload)>>
    ELSE <<>>

product_delete ==
    /\ request.op = "product_delete" /\ response = Pending
    /\ UNCHANGED <<accountVars, request>>
    /\ calls' = delete_calls(request.method, request.product_id, request.deleteOutcome)
    /\ response' = IF request.method # "POST" \/ request.deleteOutcome = "ok"
                      \/ is_RequestException(request.deleteOutcome)
                   THEN RedirectProductList
                   ELSE Raised

-----------------------------------------------------------------------------
(* The catalog specification: one request, with what the remote API answers *)

CategoryNames == {All, <<"a">>, <<"A", "b">>}
Products == {Product(1, <<"a">>, <<"a">>), Product(2, <<"B">>, <<"A", "b">>),
             Product(12, <<"a", "B">>, All), Product(1, <<"b">>, <<"A", "b">>),
             Product(12, <<"B">>, <<"a">>)}
QueryChars == {"a", "b", "B", "1", " "}

SeqsUpTo(S, n) == UNION {[1..k -> S] : k \in 0..n}

Dicts(keys, values) == UNION {[d -> values] : d \in SUBSET keys}

Selections == CategoryNames \cup {<<"b">>}

ListParams ==
    {c @@ q : c \in Dicts({"category"}, Selections),
              q \in Dicts({"q"}, SeqsUpTo(QueryChars, MaxQueryLen))}

Failures == Outcomes \ {"ok"}

Answers(bodies) ==
    {[outcome |-> "ok", body |-> b] : b \in bodies}
    \cup {[outcome |-> o, body |-> <<>>] : o \in Failures}

FormData ==
    [title : {<<>>, <<"a">>, [i \in 1..(MaxTitleLength + 1) |-> "a"]},
     price : {<<>>, <<"a">>, <<"9", ".", "9", "9">>, <<"9", ".", "9", "9", "9">>},
     description : {<<>>, <<"a">>},
     category : {<<>>, <<"1">>, <<"7">>},
     image : {[scheme |-> "", host |-> ""], [scheme |-> "", host |-> "img.io"],
              [scheme |-> "javascript", host |-> "img.io"]}]

CategoryBodies == {<<>>, <<[id |-> 1, name |-> <<"a">>], [id |-> 2, name |-> <<"A", "b">>]>>}

Record(images) ==
    [id |-> 1, title |-> <<"a">>, price |-> 999, description |-> <<"a">>,
     category |-> [id |-> 1, name |-> <<"a">>], images |-> images]

RecordBodies == {Record(<<>>), Record(<<[scheme |-> "http", host |-> "img.io"]>>)}

ProductIds == {1, 2}

ListRequests ==
    {[op |-> "product_list", GET |-> g, outcome |-> a.outcome, body |-> a.body] :
        g \in ListParams, a \in Answers(SeqsUpTo(Products, MaxProducts))}

CreateRequests ==
    {[op |-> "product_create", method |-> m, POST |-> d,
      catOutcome |-> c.outcome, catBody |-> c.body, postOutcome |-> o] :
        m \in Methods, d \in FormData, c \in Answers(CategoryBodies), o \in Outcomes}

UpdateRequests ==
    {[op |-> "product_update", method |-> m, product_id |-> id, POST |-> d,
      getOutcome |-> g.outcome, getBody |-> g.body,
      catOutcome |-> c.outcome, catBody |-> c.body, putOutcome |-> o] :
        m \in Methods, id \in ProductIds, d \in FormData,
        g \in Answers(RecordBodies), c \in Answers(CategoryBodies), o \in Outcomes}

DeleteRequests ==
    {[op |-> "product_delete", method |-> m, product_id |-> id, deleteOutcome |-> o] :
        m \in Methods, id \in ProductIds, o \in Outcomes}

InitCatalog ==
    /\ users = {}
    /\ tokens = {}
    /\ session = [c \in Clients |-> 0]
    /\ nextId = 1
    /\ nextKey = 1
    /\ regToken = [u \in UserIds |-> 0]
    /\ revoked = {}
    /\ request \in ListRequests \cup CreateRequests \cup UpdateRequests \cup DeleteRequests
    /\ response = Pending
    /\ calls = <<>>

NextCatalog ==
    \/ product_list
    \/ product_create
    \/ product_update
    \/ product_delete

SpecCatalog == InitCatalog /\ [][NextCatalog]_vars

-----------------------------------------------------------------------------
(* Properties of the catalog gateway *)

Handled(op) == request.op = op /\ response # Pending

CallsOf(verb) == SelectSeq(calls, LAMBDA c : c.verb = verb)

Spaces(n) == [i \in 1..n |-> " "]

\* the query without its leading and trailing blanks
Stripped(q) ==
    CHOOSE t \in SeqsUpTo(QueryChars, Len(q)) :
        /\ t = <<>> \/ (t[1] # " " /\ t[Len(t)] # " ")
        /\ \E a \in 0..Len(q), b \in 0..Len(q) : q = Spaces(a) \o t \o Spaces(b)

\* text contains query as a substring, letter case ignored
ContainsIgnoringCase(query, text) ==
    \E i \in 1..(Len(text) + 1), j \in 0..Len(text) :
        /\ j - i + 1 = Len(query)
        /\ \A k \in 1..Len(query) : LowerChar(text[i + k - 1]) = LowerChar(query[k])

\* what list() is to return for a request whose upstream fetch succeeded
ExpectedList(req) ==
    LET restricted == "category" \in DOMAIN req.GET /\ req.GET["category"] # All
        q == IF "q" \in DOMAIN req.GET THEN Stripped(req.GET["q"]) ELSE <<>>
        Keep(p) ==
            /\ restricted => p.category.name = req.GET["category"]
            /\ q # <<>> => \/ ContainsIgnoringCase(q, str(p.id))
                           \/ ContainsIgnoringCase(q, p.title)
                           \/ ContainsIgnoringCase(q, p.category.name)
    IN  SelectSeq(req.body, Keep)

\* C6: when the upstream fetch succeeds, list() returns exactly the upstream
\* products, in upstream order, of the selected category (any category for
\* 'All' or no selection) that, when the stripped query is not empty, contain
\* it in their id, title or category name, letter case ignored.
C6_ListFilters ==
    (Handled("product_list") /\ request.outcome = "ok")
    => (response.kind = "render" /\ response.productos = ExpectedList(request))

\* C6 witness: a category and a non-empty query kept some products, not all.
C6_Witness ==
    /\ Handled("product_list") /\ request.outcome = "ok"
    /\ DOMAIN request.GET = {"category", "q"}
    /\ request.GET["category"] # All /\ Stripped(request.GET["q"]) # <<>>
    /\ request.GET["q"] # lower(request.GET["q"])
    /\ response.productos # <<>> /\ Len(response.productos) < Len(request.body)

\* C7: when the upstream list request times out or answers non-2xx, list()
\* renders an empty product sequence with the categories reduced to 'All' and
\* raises nothing, whatever the category and search parameters are.
C7_ListDegradesToEmpty ==
    (Handled("product_list") /\ request.outcome # "ok")
    => /\ response.kind = "render"
       /\ response.productos = <<>>
       /\ response.categorias = <<All>>

\* C7 witness: the upstream answered non-2xx to a filtered, searched list.
C7_Witness ==
    /\ Handled("product_list") /\ request.outcome = "http_error"
    /\ DOMAIN request.GET = {"category", "q"} /\ response.productos = <<>>

\* C8: delete(id) always answers with the redirect to the product list; it
\* issues one remote DELETE for that id on a POST and none otherwise, and never
\* a second one.
C8_DeleteAlwaysRedirects ==
    Handled("product_delete")
    => /\ response = RedirectProductList
       /\ Len(calls) <= 1
       /\ request.method # "POST" => calls = <<>>
       /\ request.method = "POST"
            => /\ Len(calls) = 1
               /\ calls[1].verb = "DELETE"
               /\ calls[1].path = <<"products", request.product_id>>

\* C8 witness: the remote DELETE of a POST failed and the redirect was sent.
C8_Witness ==
    /\ Handled("product_delete") /\ request.method = "POST"
    /\ request.deleteOutcome # "ok" /\ response = RedirectProductList

CategoryListed(req) ==
    /\ req.catOutcome = "ok"
    /\ \E i \in 1..Len(req.catBody) : str(req.catBody[i].id) = req.POST.category

LocallyValid(req) ==
    ProductFormErrors(req.POST, fetch_categories(req.catOutcome, req.catBody)) = {}

\* C9: a create submission redirects to the product list exactly when the form
\* validated and the remote create succeeded; a failed remote create gives the
\* single non-field error and the form again; a form that fails validation,
\* a category outside the fetched choices included, issues no remote create.
C9_CreatePolicy ==
    (Handled("product_create") /\ request.method = "POST")
    => /\ response.kind = "redirect"
            <=> (LocallyValid(request) /\ request.postOutcome = "ok")
       /\ (LocallyValid(request) /\ request.postOutcome # "ok")
            => /\ response.kind = "render" /\ response.errors = {"__all__"}
               /\ Len(CallsOf("POST")) = 1
       /\ ~LocallyValid(request)
            => /\ CallsOf("POST") = <<>>
               /\ response.kind = "render"
               /\ response.errors # {} /\ "__all__" \notin response.errors
       /\ ~CategoryListed(request)
            => CallsOf("POST") = <<>> /\ "category" \in response.errors

\* C9 witness: the categories fetch failed, so an otherwise valid form was
\* refused on its category and nothing was sent.
C9_Witness ==
    /\ Handled("product_create") /\ request.method = "POST"
    /\ request.catOutcome = "timeout"
    /\ response.kind = "render" /\ response.errors = {"category"}

PutIssued(req) ==
    /\ Len(CallsOf("PUT")) = 1
    /\ CallsOf("PUT")[1].path = <<"products", req.product_id>>
    /\ CallsOf("PUT")[1].payload = Payload(req.POST)
    /\ DOMAIN CallsOf("PUT")[1].payload
         = {"title", "price", "description", "categoryId", "images"}

\* C10 as stated: every submission of a locally valid form issues one PUT of
\* the full payload for that id, a redirect happens only after that PUT
\* succeeded, and a failed PUT gives the non-field error and no redirect.
C10_Original ==
    Handled("product_update")
    => /\ (request.method = "POST" /\ LocallyValid(request)) => PutIssued(request)
       /\ response.kind = "redirect"
            => (PutIssued(request) /\ request.putOutcome = "ok")
       /\ (CallsOf("PUT") # <<>> /\ request.putOutcome # "ok")
            => (response.kind = "render" /\ response.errors = {"__all__"})

\* C10 amended: when the initial GET of the record succeeds, C10 holds as
\* stated; when it fails, update redirects to the product list at once, with
\* no form validated and no PUT issued.
C10_UpdatePolicy ==
    Handled("product_update")
    => /\ request.getOutcome = "ok"
            => /\ (request.method = "POST" /\ LocallyValid(request))
                    => PutIssued(request)
               /\ response.kind = "redirect"
                    => (PutIssued(request) /\ request.putOutcome = "ok")
       /\ (CallsOf("PUT") # <<>> /\ request.putOutcome # "ok")
            => (response.kind = "render" /\ response.errors = {"__all__"})
       /\ request.getOutcome # "ok"
            => /\ response = RedirectProductList
               /\ CallsOf("PUT") = <<>> /\ Len(calls) = 1

\* C10 witness: a valid submission whose PUT timed out got the form back.
C10_Witness ==
    /\ Handled("product_update") /\ request.method = "POST"
    /\ request.getOutcome = "ok" /\ LocallyValid(request)
    /\ request.putOutcome = "timeout"
    /\ response.kind = "render" /\ response.errors = {"__all__"}

=============================================================================
